---- MODULE Spec2Model ----
(***************************************************************************)
(* Model of the generation dispatch layer (algorithms/mcts/models/model.py) *)
(* and of the batch classifier (algorithms/QuestionDifficultyClassifier.py).*)
(*                                                                         *)
(* Text is a sequence of atoms.  An atom is either one of the literal      *)
(* substrings the code searches for, or one other character.  A list of    *)
(* strings (a Python list) is a sequence of such sequences.                *)
(***************************************************************************)
EXTENDS Integers, Sequences, FiniteSets, TLC

\* ---------------------------------------------------------------- atoms
FIN == "event: finish"
DATA == "data: "
NL == "\n"
SB == "\"content\":"
Q == "\""
EB == ",\"role\":\"assistant\""
X == "x"
BAD == "0xFF"

None == <<"None">>

\* the two markers of the GLM4/GLM3 branches: "content":"  and  ","role":"assistant"
START == <<SB, Q>>
END == <<Q, EB>>

\* ---------------------------------------------------------------- bounds
MaxBody == 3
MaxText == 6
MaxRows == 2
MaxN == 21
MaxOK == 2
MaxUsage == 1
MaxFaults == 2
MaxReply == 6

\* ---------------------------------------------------------------- str helpers
\* s.startswith(pre)
startswith(s, pre) ==
    /\ Len(s) >= Len(pre)
    /\ SubSeq(s, 1, Len(pre)) = pre

\* position of the first occurrence of sep in s, 0 when there is none
find(s, sep) ==
    LET hits == {i \in 1..(Len(s) - Len(sep) + 1) : SubSeq(s, i, i + Len(sep) - 1) = sep}
    IN  IF hits = {} THEN 0 ELSE CHOOSE i \in hits : \A j \in hits : i <= j

\* s.split(sep): a non-empty list, cut at the non-overlapping occurrences of sep, left to right
RECURSIVE split(_, _)
split(s, sep) ==
    LET i == find(s, sep)
    IN  IF i = 0 THEN <<s>>
        ELSE <<SubSeq(s, 1, i - 1)>> \o split(SubSeq(s, i + Len(sep), Len(s)), sep)

\* bytes.decode('utf-8') raises on a byte sequence that is not UTF-8
decode_raises(body) == \E i \in 1..Len(body) : body[i] = BAD

\* ---------------------------------------------------------------- extract_data
\* as extract_loop, but without the test of the payload's length
RECURSIVE extract_loop_keep_empty(_, _, _, _)
extract_loop_keep_empty(lines, i, should_extract, extracted_data) ==
    IF i > Len(lines) THEN extracted_data
    ELSE LET line == lines[i] IN
         IF startswith(line, <<FIN>>)
         THEN extract_loop_keep_empty(lines, i + 1, TRUE, extracted_data)
         ELSE IF should_extract /\ startswith(line, <<DATA>>)
              THEN extract_loop_keep_empty(lines, i + 1, should_extract,
                       Append(extracted_data, SubSeq(line, Len(<<DATA>>) + 1, Len(line))))
              ELSE extract_loop_keep_empty(lines, i + 1, should_extract, extracted_data)

\* the for loop of extract_data, from line i on
RECURSIVE extract_loop(_, _, _, _)
extract_loop(lines, i, should_extract, extracted_data) ==
    IF i > Len(lines) THEN extracted_data
    ELSE LET line == lines[i] IN
         IF startswith(line, <<FIN>>)
         THEN extract_loop(lines, i + 1, TRUE, extracted_data)
         ELSE IF should_extract /\ startswith(line, <<DATA>>)
              THEN IF Len(SubSeq(line, Len(<<DATA>>) + 1, Len(line))) > 0
                   THEN extract_loop(lines, i + 1, should_extract,
                                     Append(extracted_data, SubSeq(line, Len(<<DATA>>) + 1, Len(line))))
                   ELSE extract_loop(lines, i + 1, should_extract, extracted_data)
              ELSE extract_loop(lines, i + 1, should_extract, extracted_data)

\* as extract_data, but with should_extract = True from the start
extract_data_eager(text) == extract_loop(split(text, <<NL>>), 1, TRUE, <<>>)

extract_data(text) == extract_loop(split(text, <<NL>>), 1, FALSE, <<>>)

\* ---------------------------------------------------------------- GLM4 / GLM3 decoding
\* reply.split(START)[1] raises IndexError when the list has one element
glm_decode_raises(reply) == Len(split(reply, START)) < 2

glm_content(reply) == split(split(reply, START)[2], END)[1]

\* as glm_decode, but dropping the empty strings of the list
glm_decode_nonempty(reply) ==
    IF glm_decode_raises(reply) THEN <<>>
    ELSE SelectSeq(split(glm_content(reply), <<NL>>), LAMBDA l : l # <<>>)

glm_decode(reply) ==
    IF glm_decode_raises(reply) THEN <<>> ELSE split(glm_content(reply), <<NL>>)

\* ---------------------------------------------------------------- state
VARIABLES
    pc,                 \* position of the running call: "idle", a step name, or "done"
    op,                 \* the function the caller invoked
    model,              \* get_glm_reply: model
    tol,                \* get_glm_reply: remaining attempts
    response,           \* get_glm_reply: None or the body of the HTTP response
    posts,              \* history: requests.post invocations of this call
    n_req,              \* gpt: the parameter n
    cnt,                \* gpt: remaining attempts
    n,                  \* chatgpt: samples still to request
    req,                \* chatgpt: cnt, the sample count of the provider call in flight
    outputs,            \* chatgpt: outputs
    res,                \* chatgpt: the provider response not yet recorded, or None
    faults,             \* completions_with_backoff: consecutive APIErrors of the call in flight
    attempts,           \* history: chatgpt invocations of this gpt call
    succeededAt,        \* history: the attempt of this gpt call that completed, 0 when none has
    provider_calls,     \* history: the sample counts of the provider calls of this chatgpt invocation
    obtained,           \* history: provider responses obtained during this gpt or chatgpt call
    completion_tokens,  \* module global
    prompt_tokens,      \* module global
    reported_completion,\* history: sum of usage.completion_tokens over the provider calls that returned
    reported_prompt,    \* history: sum of usage.prompt_tokens over the provider calls that returned
    nOK,                \* history: provider calls that returned
    result,             \* the value returned to the caller
    outcome,            \* "none" while running, then "returned" or "raised"
    xpc,                \* extract_data: "off", "in" before the call, "out" after it
    text,               \* extract_data: the argument
    extracted,          \* extract_data: the returned list
    rpc,                \* run: "off", or the step the run is at, or "done"
    input_key,          \* run: self.input_key
    output_key,         \* run: self.output_key
    output_file,        \* run: self.output_file
    input_columns,      \* run: the columns of the input file
    nrows,              \* run: the rows of the input file
    columns,            \* run: dataframe.columns
    labels,             \* run: per row, the cells primary_category and secondary_category
    labels0,            \* history: those cells as read from the input file
    responses,          \* run: responses
    idx,                \* run: rows the parsing loop has gone through
    generate_calls,     \* history: calls of self.model.generate_text_from_input
    failed,             \* history: the step whose exception ended the run, "none" when none did
    written,            \* whether dataframe.to_json has written the output file
    choices_log,        \* history: the choices of the provider calls of this chatgpt invocation, in call order
    backend,            \* gpt_usage: backend
    generator_type,     \* QuestionCategoryClassifier: config["generator_type"], "<absent>" when there is none
    config_files,       \* QuestionCategoryClassifier: whether config has input_file and output_file
    dpc,                \* delimited decoding alone: "off", "in" before it, "out" after it
    reply,              \* delimited decoding alone: reply
    decoded             \* delimited decoding alone: the returned list

glmVars == <<model, tol, response, posts>>
mainVars == <<pc, op, model, tol, response, posts, n_req, cnt, n, req, outputs, res, faults,
              attempts, succeededAt, provider_calls, obtained, completion_tokens, prompt_tokens,
              reported_completion, reported_prompt, nOK, result, outcome,
              choices_log, backend, generator_type, config_files>>
argVars == <<backend, generator_type, config_files>>
decodeVars == <<dpc, reply, decoded>>
extractVars == <<xpc, text, extracted>>
runConfig == <<input_key, output_key, output_file, input_columns, nrows, labels0>>
runVars == <<rpc, input_key, output_key, output_file, input_columns, nrows, columns, labels,
             labels0, responses, idx, generate_calls, failed, written>>
gptVars == <<n_req, cnt, attempts, succeededAt, obtained>>
chatVars == <<n, req, outputs, res, faults, provider_calls, choices_log>>
counters == <<completion_tokens, prompt_tokens>>
reported == <<reported_completion, reported_prompt, nOK>>
vars == <<pc, op, model, tol, response, posts, n_req, cnt, n, req, outputs, res, faults,
          attempts, succeededAt, provider_calls, obtained, completion_tokens, prompt_tokens,
          reported_completion, reported_prompt, nOK, result, outcome,
          xpc, text, extracted,
          rpc, input_key, output_key, output_file, input_columns, nrows, columns, labels,
          labels0, responses, idx, generate_calls, failed, written,
          choices_log, backend, generator_type, config_files, dpc, reply, decoded>>

RECURSIVE SeqsUpTo(_, _)
SeqsUpTo(S, k) ==
    IF k = 0 THEN {<<>>}
    ELSE LET shorter == SeqsUpTo(S, k - 1)
         IN  shorter \cup {Append(s, a) : s \in {t \in shorter : Len(t) = k - 1}, a \in S}

GLM_MODELS == {"ChatGLM2", "GLM4", "GLM3"}
Models == GLM_MODELS \cup {"GLM5"}

\* The bodies a gateway can answer with.  To a decoder every atom that is not one of its
\* own literals is an ordinary character, so X stands for the other decoder's literals.
StreamBodies == SeqsUpTo({FIN, DATA, NL, X, BAD}, MaxBody)
EnvelopeBodies == SeqsUpTo({SB, Q, EB, NL, X, BAD}, MaxBody)
Bodies(m) == IF m = "ChatGLM2" THEN StreamBodies ELSE EnvelopeBodies

\* as TOL, but one attempt short
TOL_short == 3 - 1

TOL == 3
CNT == 5
CEILING == 20

\* message contents a provider can return: null, or text
Contents == {None, <<X>>, <<X, NL, X>>}
\* a provider response to a call for c samples: c choices and the usage
Responses(c) ==
    {[choices |-> [i \in 1..c |-> IF i = 1 THEN first ELSE other],
      usage |-> [completion_tokens |-> uc, prompt_tokens |-> up]] :
        first \in Contents, other \in {None, <<X>>}, uc \in 0..MaxUsage, up \in 0..MaxUsage}

Backends == {"gpt-4", "gpt-3.5-turbo", "glm"}

min(a, b) == IF a <= b THEN a ELSE b

MainInit ==
    /\ pc = "idle"
    /\ op = "none"
    /\ model = None
    /\ tol = 0
    /\ response = None
    /\ posts = 0
    /\ n_req = 0
    /\ cnt = 0
    /\ n = 0
    /\ req = 0
    /\ outputs = <<>>
    /\ res = None
    /\ faults = 0
    /\ attempts = 0
    /\ succeededAt = 0
    /\ provider_calls = <<>>
    /\ choices_log = <<>>
    /\ obtained = 0
    /\ backend = None
    /\ generator_type = "<absent>"
    /\ config_files = FALSE
    /\ completion_tokens = 0
    /\ prompt_tokens = 0
    /\ reported_completion = 0
    /\ reported_prompt = 0
    /\ nOK = 0
    /\ result = None
    /\ outcome = "none"

ExtractOff ==
    /\ xpc = "off"
    /\ text = <<>>
    /\ extracted = None

RunOff ==
    /\ rpc = "off"
    /\ input_key = "question"
    /\ output_key = "classification_result"
    /\ output_file = "out/result.jsonl"
    /\ input_columns = {}
    /\ nrows = 0
    /\ columns = {}
    /\ labels = <<>>
    /\ labels0 = <<>>
    /\ responses = <<>>
    /\ idx = 0
    /\ generate_calls = 0
    /\ failed = "none"
    /\ written = FALSE

DecodeOff ==
    /\ dpc = "off"
    /\ reply = <<>>
    /\ decoded = None

Init == MainInit /\ ExtractOff /\ RunOff /\ DecodeOff

\* ---------------------------------------------------------------- get_glm_reply
\* entry: the branch on model, tol = 3, response = None
get_glm_reply(m) ==
    /\ pc = "idle"
    /\ op' = "glm"
    /\ model' = m
    /\ posts' = 0
    /\ response' = None
    /\ IF m \in GLM_MODELS
       THEN /\ tol' = TOL
            /\ pc' = "glm_loop"
            /\ UNCHANGED <<result, outcome>>
       ELSE /\ tol' = 0
            /\ pc' = "done"
            /\ result' = <<>>
            /\ outcome' = "returned"
    /\ UNCHANGED <<gptVars, chatVars, counters, reported>>
    /\ UNCHANGED <<argVars, extractVars, runVars, decodeVars>>

\* while tol: requests.post(...) raised, tol -= 1
post_raises ==
    /\ pc = "glm_loop"
    /\ tol # 0
    /\ posts' = posts + 1
    /\ tol' = tol - 1
    /\ UNCHANGED <<pc, op, model, response, result, outcome>>
    /\ UNCHANGED <<gptVars, chatVars, counters, reported>>
    /\ UNCHANGED <<argVars, extractVars, runVars, decodeVars>>

\* as post_returns, but without the break
post_returns_nobreak ==
    /\ pc = "glm_loop"
    /\ tol # 0
    /\ posts' = posts + 1
    /\ response' \in Bodies(model)
    /\ pc' = "glm_loop"
    /\ UNCHANGED <<op, model, tol, result, outcome>>
    /\ UNCHANGED <<gptVars, chatVars, counters, reported>>
    /\ UNCHANGED <<argVars, extractVars, runVars, decodeVars>>

\* while tol: requests.post(...) returned, break
post_returns ==
    /\ pc = "glm_loop"
    /\ tol # 0
    /\ posts' = posts + 1
    /\ response' \in Bodies(model)
    /\ pc' = "glm_decode"
    /\ UNCHANGED <<op, model, tol, result, outcome>>
    /\ UNCHANGED <<gptVars, chatVars, counters, reported>>
    /\ UNCHANGED <<argVars, extractVars, runVars, decodeVars>>

\* the loop ended with tol = 0
post_exhausted ==
    /\ pc = "glm_loop"
    /\ tol = 0
    /\ pc' = "glm_decode"
    /\ UNCHANGED <<op, model, tol, response, posts, result, outcome>>
    /\ UNCHANGED <<gptVars, chatVars, counters, reported>>
    /\ UNCHANGED <<argVars, extractVars, runVars, decodeVars>>

\* everything after the loop: the None check, the utf-8 decoding, the decoder of the branch
glm_finish ==
    /\ pc = "glm_decode"
    /\ pc' = "done"
    /\ IF response = None
       THEN result' = <<>> /\ outcome' = "returned"
       ELSE IF decode_raises(response)
       THEN result' = None /\ outcome' = "raised"
       ELSE IF model = "ChatGLM2"
       THEN result' = extract_data(response) /\ outcome' = "returned"
       ELSE result' = glm_decode(response) /\ outcome' = "returned"
    /\ UNCHANGED <<op, model, tol, response, posts>>
    /\ UNCHANGED <<gptVars, chatVars, counters, reported>>
    /\ UNCHANGED <<argVars, extractVars, runVars, decodeVars>>

\* ---------------------------------------------------------------- gpt, chatgpt
\* gpt entry: out = [], cnt = 5
gpt(k) ==
    /\ pc = "idle"
    /\ op' = "gpt"
    /\ n_req' = k
    /\ cnt' = CNT
    /\ attempts' = 0
    /\ succeededAt' = 0
    /\ obtained' = 0
    /\ pc' = "gpt_loop"
    /\ UNCHANGED <<glmVars, chatVars, counters, reported, result, outcome>>
    /\ UNCHANGED <<argVars, extractVars, runVars, decodeVars>>

\* chatgpt called by the caller itself
chatgpt(k) ==
    /\ pc = "idle"
    /\ op' = "chatgpt"
    /\ n_req' = k
    /\ n' = k
    /\ outputs' = <<>>
    /\ provider_calls' = <<>>
    /\ choices_log' = <<>>
    /\ obtained' = 0
    /\ pc' = "chat_loop"
    /\ UNCHANGED <<glmVars, cnt, attempts, succeededAt, req, res, faults, counters, reported,
                   result, outcome>>
    /\ UNCHANGED <<argVars, extractVars, runVars, decodeVars>>

\* as gpt_attempt, but asking chatgpt for one sample
gpt_attempt_one_sample ==
    /\ pc = "gpt_loop"
    /\ cnt # 0
    /\ attempts' = attempts + 1
    /\ n' = min(n_req, 1)
    /\ outputs' = <<>>
    /\ provider_calls' = <<>>
    /\ choices_log' = <<>>
    /\ pc' = "chat_loop"
    /\ UNCHANGED <<glmVars, n_req, cnt, succeededAt, obtained, req, res, faults, counters,
                   reported, op, result, outcome>>
    /\ UNCHANGED <<argVars, extractVars, runVars, decodeVars>>

\* while cnt: try: chatgpt(messages, ..., n=n, ...)
gpt_attempt ==
    /\ pc = "gpt_loop"
    /\ cnt # 0
    /\ attempts' = attempts + 1
    /\ n' = n_req
    /\ outputs' = <<>>
    /\ provider_calls' = <<>>
    /\ choices_log' = <<>>
    /\ pc' = "chat_loop"
    /\ UNCHANGED <<glmVars, n_req, cnt, succeededAt, obtained, req, res, faults, counters,
                   reported, op, result, outcome>>
    /\ UNCHANGED <<argVars, extractVars, runVars, decodeVars>>

\* the loop ended with cnt = 0: return out, still []
gpt_exhausted ==
    /\ pc = "gpt_loop"
    /\ cnt = 0
    /\ result' = <<>>
    /\ outcome' = "returned"
    /\ pc' = "done"
    /\ UNCHANGED <<glmVars, gptVars, chatVars, counters, reported, op>>
    /\ UNCHANGED <<argVars, extractVars, runVars, decodeVars>>

\* an exception leaves chatgpt: gpt's except clause takes it, the caller of chatgpt gets it
chat_abandoned ==
    /\ n' = 0
    /\ req' = 0
    /\ outputs' = <<>>
    /\ res' = None
    /\ faults' = 0
    /\ provider_calls' = <<>>
    /\ choices_log' = <<>>
    /\ IF op = "gpt"
       THEN /\ cnt' = cnt - 1
            /\ pc' = "gpt_loop"
            /\ UNCHANGED <<result, outcome>>
       ELSE /\ cnt' = cnt
            /\ pc' = "done"
            /\ result' = None
            /\ outcome' = "raised"

\* as chat_batch, but asking for all remaining samples in one call
chat_batch_uncapped ==
    /\ pc = "chat_loop"
    /\ n > 0
    /\ req' = n
    /\ n' = n - n
    /\ faults' = 0
    /\ provider_calls' = Append(provider_calls, n)
    /\ pc' = "chat_call"
    /\ UNCHANGED <<glmVars, gptVars, outputs, res, choices_log, counters, reported, op, result,
                   outcome>>
    /\ UNCHANGED <<argVars, extractVars, runVars, decodeVars>>

\* while n > 0: cnt = min(n, 20); n -= cnt; the provider call starts
chat_batch ==
    /\ pc = "chat_loop"
    /\ n > 0
    /\ req' = min(n, CEILING)
    /\ n' = n - min(n, CEILING)
    /\ faults' = 0
    /\ provider_calls' = Append(provider_calls, min(n, CEILING))
    /\ pc' = "chat_call"
    /\ UNCHANGED <<glmVars, gptVars, outputs, res, choices_log, counters, reported, op, result,
                   outcome>>
    /\ UNCHANGED <<argVars, extractVars, runVars, decodeVars>>

\* completions_with_backoff: openai.APIError, backoff retries the call
api_error ==
    /\ pc = "chat_call"
    /\ faults < MaxFaults
    /\ faults' = faults + 1
    /\ UNCHANGED <<glmVars, gptVars, n, req, outputs, res, provider_calls, choices_log, counters, reported,
                   pc, op, result, outcome>>
    /\ UNCHANGED <<argVars, extractVars, runVars, decodeVars>>

\* completions_with_backoff: an exception of any other class (of the provider:
\* RateLimitError, Timeout, APIConnectionError, ...) is not retried
other_error ==
    /\ pc = "chat_call"
    /\ chat_abandoned
    /\ UNCHANGED <<glmVars, n_req, attempts, succeededAt, obtained, counters, reported, op>>
    /\ UNCHANGED <<argVars, extractVars, runVars, decodeVars>>

\* completions_with_backoff returned res
provider_returns ==
    /\ pc = "chat_call"
    /\ nOK < MaxOK
    /\ res' \in Responses(req)
    /\ nOK' = nOK + 1
    /\ obtained' = obtained + 1
    /\ reported_completion' = reported_completion + res'.usage.completion_tokens
    /\ reported_prompt' = reported_prompt + res'.usage.prompt_tokens
    /\ choices_log' = Append(choices_log, res'.choices)
    /\ pc' = "chat_got"
    /\ UNCHANGED <<glmVars, n_req, cnt, attempts, succeededAt, n, req, outputs, provider_calls, faults,
                   counters, op, result, outcome>>
    /\ UNCHANGED <<argVars, extractVars, runVars, decodeVars>>

\* as chat_record, but adding the completion usage to both counters
chat_record_copied ==
    /\ pc = "chat_got"
    /\ outputs' = outputs \o res.choices
    /\ completion_tokens' = completion_tokens + res.usage.completion_tokens
    /\ prompt_tokens' = prompt_tokens + res.usage.completion_tokens
    /\ res' = None
    /\ pc' = "chat_loop"
    /\ UNCHANGED <<glmVars, gptVars, n, req, faults, provider_calls, choices_log, reported, op, result,
                   outcome>>
    /\ UNCHANGED <<argVars, extractVars, runVars, decodeVars>>

\* outputs.extend(...); completion_tokens += ...; prompt_tokens += ...
chat_record ==
    /\ pc = "chat_got"
    /\ outputs' = outputs \o res.choices
    /\ completion_tokens' = completion_tokens + res.usage.completion_tokens
    /\ prompt_tokens' = prompt_tokens + res.usage.prompt_tokens
    /\ res' = None
    /\ pc' = "chat_loop"
    /\ UNCHANGED <<glmVars, gptVars, n, req, faults, provider_calls, choices_log, reported, op, result,
                   outcome>>
    /\ UNCHANGED <<argVars, extractVars, runVars, decodeVars>>

\* gpt: chatgpt(...)[0].split('\n') raises on an empty list and on a null content
parse_raises(outs) == Len(outs) = 0 \/ outs[1] = None

\* as chat_return, but without the break of gpt's loop
chat_return_nobreak ==
    /\ pc = "chat_loop"
    /\ n <= 0
    /\ IF op = "gpt"
       THEN IF parse_raises(outputs)
            THEN /\ chat_abandoned
                 /\ UNCHANGED succeededAt
            ELSE /\ result' = split(outputs[1], <<NL>>)
                 /\ succeededAt' = attempts
                 /\ pc' = "gpt_loop"
                 /\ UNCHANGED <<cnt, chatVars, outcome>>
       ELSE /\ result' = outputs
            /\ outcome' = "returned"
            /\ pc' = "done"
            /\ UNCHANGED <<cnt, succeededAt, chatVars>>
    /\ UNCHANGED <<glmVars, n_req, attempts, obtained, counters, reported, op>>
    /\ UNCHANGED <<argVars, extractVars, runVars, decodeVars>>

\* while n > 0 is over: chatgpt returns outputs; in gpt, [0].split('\n') and break
chat_return ==
    /\ pc = "chat_loop"
    /\ n <= 0
    /\ IF op = "gpt"
       THEN IF parse_raises(outputs)
            THEN /\ chat_abandoned
                 /\ UNCHANGED succeededAt
            ELSE /\ result' = split(outputs[1], <<NL>>)
                 /\ outcome' = "returned"
                 /\ succeededAt' = attempts
                 /\ pc' = "done"
                 /\ UNCHANGED <<cnt, chatVars>>
       ELSE /\ result' = outputs
            /\ outcome' = "returned"
            /\ pc' = "done"
            /\ UNCHANGED <<cnt, succeededAt, chatVars>>
    /\ UNCHANGED <<glmVars, n_req, attempts, obtained, counters, reported, op>>
    /\ UNCHANGED <<argVars, extractVars, runVars, decodeVars>>

\* ---------------------------------------------------------------- gpt_usage
\* the cost in units of 1e-7 dollar: 0.06 / 1000 dollar is 600 units, -1 dollar is
\* -10000000 units
\* as gpt_usage_cost, but an unpriced backend costs nothing
gpt_usage_cost_zero(b) ==
    IF b = "gpt-4" THEN completion_tokens * 600 + prompt_tokens * 300
    ELSE IF b = "gpt-3.5-turbo" THEN completion_tokens * 20 + prompt_tokens * 15
    ELSE 0

gpt_usage_cost(b) ==
    IF b = "gpt-4" THEN completion_tokens * 600 + prompt_tokens * 300
    ELSE IF b = "gpt-3.5-turbo" THEN completion_tokens * 20 + prompt_tokens * 15
    ELSE -10000000

gpt_usage(b) ==
    /\ pc = "idle"
    /\ op' = "gpt_usage"
    /\ backend' = b
    /\ result' = [completion_tokens |-> completion_tokens, prompt_tokens |-> prompt_tokens,
                  cost |-> gpt_usage_cost(b)]
    /\ outcome' = "returned"
    /\ pc' = "done"
    /\ UNCHANGED <<glmVars, gptVars, chatVars, counters, reported>>
    /\ UNCHANGED <<generator_type, config_files, extractVars, runVars, decodeVars>>

\* ---------------------------------------------------------------- local_inference_model
\* inference_type is LOCAL_INFERENCE_TYPES[1] = 'llama': the call of get_local_response_api,
\* with no try around it
local_inference_model(raised) ==
    /\ pc = "idle"
    /\ op' = "local"
    /\ IF raised
       THEN result' = None /\ outcome' = "raised"
       ELSE result' = <<X>> /\ outcome' = "returned"
    /\ pc' = "done"
    /\ UNCHANGED <<glmVars, gptVars, chatVars, counters, reported>>
    /\ UNCHANGED <<argVars, extractVars, runVars, decodeVars>>

\* ---------------------------------------------------------------- QuestionCategoryClassifier.__init__
GENERATOR_TYPES == {"local", "aisuite", "request"}
\* the config has no "generator_type" key
ABSENT == "<absent>"
GeneratorTypes == {ABSENT, "local", "aisuite", "request", "LOCAL", "vllm"}

\* self.config.get("generator_type", "local").lower()
lower(str) == IF str = "LOCAL" THEN "local" ELSE str
generator_kind(gt) == IF gt = ABSENT THEN "local" ELSE lower(gt)

\* as init_model_raises, but with the last branch building a generator too
init_model_never_raises(gt) == FALSE

\* __init_model__ raises ValueError in its else branch
init_model_raises(gt) == generator_kind(gt) \notin GENERATOR_TYPES

\* QuestionCategoryClassifier(config): the check of the two files, then __init_model__
QuestionCategoryClassifier(gt, files) ==
    /\ pc = "idle"
    /\ op' = "construct"
    /\ generator_type' = gt
    /\ config_files' = files
    /\ IF ~files \/ init_model_raises(gt)
       THEN result' = None /\ outcome' = "raised"
       ELSE result' = <<generator_kind(gt)>> /\ outcome' = "returned"
    /\ pc' = "done"
    /\ UNCHANGED <<glmVars, gptVars, chatVars, counters, reported, backend>>
    /\ UNCHANGED <<extractVars, runVars, decodeVars>>

\* ---------------------------------------------------------------- the caller
\* the caller takes the result; the locals of the call are gone
call_over ==
    /\ pc = "done"
    /\ pc' = "idle"
    /\ op' = "none"
    /\ model' = None
    /\ tol' = 0
    /\ response' = None
    /\ posts' = 0
    /\ n_req' = 0
    /\ cnt' = 0
    /\ n' = 0
    /\ req' = 0
    /\ outputs' = <<>>
    /\ res' = None
    /\ faults' = 0
    /\ attempts' = 0
    /\ succeededAt' = 0
    /\ provider_calls' = <<>>
    /\ choices_log' = <<>>
    /\ obtained' = 0
    /\ result' = None
    /\ outcome' = "none"
    /\ UNCHANGED <<counters, reported>>
    /\ backend' = None
    /\ generator_type' = "<absent>"
    /\ config_files' = FALSE
    /\ UNCHANGED <<extractVars, runVars, decodeVars>>

Next ==
    \/ \E m \in Models : get_glm_reply(m)
    \/ post_raises
    \/ post_returns
    \/ post_exhausted
    \/ glm_finish
    \/ \E k \in 0..MaxN : gpt(k)
    \/ \E k \in 0..MaxN : chatgpt(k)
    \/ gpt_attempt
    \/ gpt_exhausted
    \/ chat_batch
    \/ api_error
    \/ other_error
    \/ provider_returns
    \/ chat_record
    \/ chat_return
    \/ \E b \in Backends : gpt_usage(b)
    \/ \E raised \in BOOLEAN : local_inference_model(raised)
    \/ \E gt \in GeneratorTypes, files \in BOOLEAN : QuestionCategoryClassifier(gt, files)
    \/ call_over

Spec == Init /\ [][Next]_vars

\* ---------------------------------------------------------------- extract_data alone
\* the stream of the specification's example: finish, 'data: x', 'data: ', 'data: xx'
ExampleText == <<FIN, NL, DATA, X, NL, DATA, NL, DATA, X, X>>

Texts == SeqsUpTo({FIN, DATA, NL, X}, MaxText) \cup {ExampleText}

InitExtract ==
    /\ MainInit /\ RunOff /\ DecodeOff
    /\ xpc = "in"
    /\ text \in Texts
    /\ extracted = None

extract ==
    /\ xpc = "in"
    /\ extracted' = extract_data(text)
    /\ xpc' = "out"
    /\ UNCHANGED <<text, mainVars, runVars, decodeVars>>

NextExtract == extract

SpecExtract == InitExtract /\ [][NextExtract]_vars

\* ---------------------------------------------------------------- GLM4 / GLM3 decoding alone
\* the texts response.content.decode('utf-8') can give
Replies == SeqsUpTo({SB, Q, EB, NL, X}, MaxReply)

InitDecode ==
    /\ MainInit /\ ExtractOff /\ RunOff
    /\ dpc = "in"
    /\ reply \in Replies
    /\ decoded = None

\* the try statement and the return after it
decode ==
    /\ dpc = "in"
    /\ decoded' = glm_decode(reply)
    /\ dpc' = "out"
    /\ UNCHANGED <<reply, mainVars, extractVars, runVars>>

NextDecode == decode

SpecDecode == InitDecode /\ [][NextDecode]_vars

\* ---------------------------------------------------------------- QuestionCategoryClassifier.run
NaN == "NaN"

\* the strings a generator can answer with
NOT_JSON == "the category is math"
JSON_BOTH == "{\"primary_category\": \"math\", \"secondary_category\": \"arithmetic\"}"
JSON_PRIMARY == "{\"primary_category\": \"physics\"}"
JSON_EMPTY == "{}"
JSON_LIST == "[\"math\"]"
ResponseStrings == {"", NOT_JSON, JSON_BOTH, JSON_PRIMARY, JSON_EMPTY, JSON_LIST}

\* json.loads: the value of a JSON text, or JSONDecodeError
json_loads(str) ==
    IF str = JSON_BOTH
    THEN [type |-> "dict", keys |-> {"primary_category", "secondary_category"},
          primary_category |-> "math", secondary_category |-> "arithmetic"]
    ELSE IF str = JSON_PRIMARY
    THEN [type |-> "dict", keys |-> {"primary_category"},
          primary_category |-> "physics", secondary_category |-> NaN]
    ELSE IF str = JSON_EMPTY
    THEN [type |-> "dict", keys |-> {}, primary_category |-> NaN, secondary_category |-> NaN]
    ELSE IF str = JSON_LIST
    THEN [type |-> "list", keys |-> {}, primary_category |-> NaN, secondary_category |-> NaN]
    ELSE [type |-> "JSONDecodeError", keys |-> {}, primary_category |-> NaN,
          secondary_category |-> NaN]

\* json.loads(classification_str) if classification_str else {}
classification_of(str) ==
    IF str = ""
    THEN [type |-> "dict", keys |-> {}, primary_category |-> NaN, secondary_category |-> NaN]
    ELSE json_loads(str)

\* as get, but looking up "primary_category" whatever the key
get_primary(classification, key) ==
    IF "primary_category" \in classification.keys
    THEN classification["primary_category"] ELSE ""

\* classification.get(key, "")
get(classification, key) ==
    IF key \in classification.keys THEN classification[key] ELSE ""

\* os.path.dirname(self.output_file)
dirname(path) == IF path = "out/result.jsonl" THEN "out" ELSE ""

InputColumns == SUBSET {"question", "classification_result", "primary_category"}
InputKeys == {"question", "text"}
OutputKeys == {"classification_result", "primary_category", "category"}
OutputFiles == {"out/result.jsonl", "result.jsonl"}

\* the rows the parsing loop goes through: zip(dataframe.iterrows(), responses)
zipped == min(nrows, Len(responses))

InitRun ==
    /\ MainInit /\ ExtractOff /\ DecodeOff
    /\ rpc = "read"
    /\ input_key \in InputKeys
    /\ output_key \in OutputKeys
    /\ output_file \in OutputFiles
    /\ input_columns \in InputColumns
    /\ nrows \in 0..MaxRows
    /\ labels0 = [i \in 1..nrows |->
                    [primary_category |->
                        IF "primary_category" \in input_columns THEN "history" ELSE NaN,
                     secondary_category |-> NaN]]
    /\ columns = {}
    /\ labels = <<>>
    /\ responses = <<>>
    /\ idx = 0
    /\ generate_calls = 0
    /\ failed = "none"
    /\ written = FALSE

\* as run_fails, but with the exception leaving run
run_fails_propagating(step) ==
    /\ rpc' = "raised"
    /\ failed' = step

\* an exception reaches the except clause of run: it is printed and run returns
run_fails(step) ==
    /\ rpc' = "done"
    /\ failed' = step

\* dataframe = pd.read_json(self.input_file, lines=True)
run_read ==
    /\ rpc = "read"
    /\ \/ /\ columns' = input_columns
          /\ labels' = labels0
          /\ rpc' = "prompts"
          /\ UNCHANGED failed
       \/ /\ run_fails("read")
          /\ UNCHANGED <<columns, labels>>
    /\ UNCHANGED <<runConfig, responses, idx, generate_calls, written, mainVars, extractVars, decodeVars>>

\* as run_reformat_prompt, but without the test of input_key
run_reformat_prompt_unchecked ==
    /\ rpc = "prompts"
    /\ rpc' = "generate"
    /\ UNCHANGED <<runConfig, columns, labels, responses, idx, generate_calls, failed, written,
                   mainVars, extractVars, decodeVars>>

\* formatted_prompts = self._reformat_prompt(dataframe)
run_reformat_prompt ==
    /\ rpc = "prompts"
    /\ IF input_key \notin columns
       THEN run_fails("prompts")
       ELSE rpc' = "generate" /\ UNCHANGED failed
    /\ UNCHANGED <<runConfig, columns, labels, responses, idx, generate_calls, written,
                   mainVars, extractVars, decodeVars>>

\* responses = self.model.generate_text_from_input(formatted_prompts)
run_generate ==
    /\ rpc = "generate"
    /\ generate_calls' = generate_calls + 1
    /\ \/ /\ responses' \in SeqsUpTo(ResponseStrings, nrows)
          /\ rpc' = "parse"
          /\ UNCHANGED failed
       \/ /\ run_fails("generate")
          /\ UNCHANGED responses
    /\ UNCHANGED <<runConfig, columns, labels, idx, written, mainVars, extractVars, decodeVars>>

\* as run_parse_row, but with no except clause in the loop
run_parse_row_abort ==
    /\ rpc = "parse"
    /\ idx < zipped
    /\ LET classification == classification_of(responses[idx + 1]) IN
       IF classification.type = "dict"
       THEN /\ labels' = [labels EXCEPT ![idx + 1] =
                            [primary_category |-> get(classification, "primary_category"),
                             secondary_category |-> get(classification, "secondary_category")]]
            /\ columns' = columns \cup {"primary_category", "secondary_category"}
            /\ idx' = idx + 1
            /\ UNCHANGED <<rpc, failed>>
       ELSE /\ run_fails("parse")
            /\ UNCHANGED <<labels, columns, idx>>
    /\ UNCHANGED <<runConfig, responses, generate_calls, written, mainVars, extractVars, decodeVars>>

\* one pass of the parsing loop: row idx and its response
run_parse_row ==
    /\ rpc = "parse"
    /\ idx < zipped
    /\ idx' = idx + 1
    /\ LET classification == classification_of(responses[idx + 1]) IN
       IF classification.type = "dict"
       THEN /\ labels' = [labels EXCEPT ![idx + 1] =
                            [primary_category |-> get(classification, "primary_category"),
                             secondary_category |-> get(classification, "secondary_category")]]
            /\ columns' = columns \cup {"primary_category", "secondary_category"}
       ELSE UNCHANGED <<labels, columns>>
    /\ UNCHANGED <<runConfig, rpc, responses, generate_calls, failed, written, mainVars,
                   extractVars, decodeVars>>

\* as run_check_output_key, but never raising
run_check_output_key_skipped ==
    /\ rpc = "parse"
    /\ idx >= zipped
    /\ rpc' = "write"
    /\ UNCHANGED <<runConfig, columns, labels, responses, idx, generate_calls, failed,
                   written, mainVars, extractVars, decodeVars>>

\* the loop is over: if self.output_key in dataframe.columns: raise ValueError
run_check_output_key ==
    /\ rpc = "parse"
    /\ idx >= zipped
    /\ IF output_key \in columns
       THEN run_fails("output_key")
       ELSE rpc' = "write" /\ UNCHANGED failed
    /\ UNCHANGED <<runConfig, columns, labels, responses, idx, generate_calls, written,
                   mainVars, extractVars, decodeVars>>

\* os.makedirs(output_dir, exist_ok=True) raises on the empty path; then dataframe.to_json
run_write ==
    /\ rpc = "write"
    /\ IF dirname(output_file) = ""
       THEN run_fails("makedirs") /\ UNCHANGED written
       ELSE \/ run_fails("makedirs") /\ UNCHANGED written
            \/ run_fails("to_json") /\ UNCHANGED written
            \/ rpc' = "done" /\ written' = TRUE /\ UNCHANGED failed
    /\ UNCHANGED <<runConfig, columns, labels, responses, idx, generate_calls, mainVars,
                   extractVars, decodeVars>>

NextRun ==
    \/ run_read
    \/ run_reformat_prompt
    \/ run_generate
    \/ run_parse_row
    \/ run_check_output_key
    \/ run_write

SpecRun == InitRun /\ [][NextRun]_vars

\* ================================================================ properties
contains(s, sep) == find(s, sep) # 0

\* C1: get_glm_reply with a recognised model whose every requests.post raised has made
\* exactly 3 POST attempts, returns the empty list and raises nothing.
C1_AllPostsRaise ==
    (pc = "done" /\ op = "glm" /\ model \in {"ChatGLM2", "GLM4", "GLM3"} /\ response = None)
        => (posts = 3 /\ result = <<>> /\ outcome = "returned")

C1_Witness ==
    /\ pc = "done" /\ op = "glm" /\ model = "GLM3"
    /\ response = None /\ posts = 3 /\ result = <<>>

\* C2: gpt makes at most 5 attempts, makes no attempt after the one that completed, and
\* when attempts 1..4 raised and the 5th completed it returns the 5th attempt's result:
\* the lines of the first sample of that attempt.
C2_FifthAttempt ==
    /\ attempts <= 5
    /\ succeededAt # 0 => attempts = succeededAt
    /\ (pc = "done" /\ op = "gpt" /\ succeededAt = 5)
          => /\ outcome = "returned"
             /\ result # <<>>
             /\ result = split(outputs[1], <<NL>>)

C2_Witness ==
    /\ pc = "done" /\ op = "gpt" /\ succeededAt = 5 /\ attempts = 5
    /\ result = <<<<X>>, <<X>>>>

\* C3: completion_tokens and prompt_tokens start at 0, no step decreases them, and
\* whenever no provider response is waiting to be recorded each equals the sum of the
\* usage reported by the provider calls that have returned, abandoned attempts included.
C3_Counters ==
    /\ completion_tokens = 0 /\ prompt_tokens = 0
    /\ [][completion_tokens' >= completion_tokens /\ prompt_tokens' >= prompt_tokens]_vars
    /\ [](pc # "chat_got" => /\ completion_tokens = reported_completion
                             /\ prompt_tokens = reported_prompt)

C3_Witness ==
    /\ pc = "gpt_loop" /\ cnt < CNT /\ obtained >= 1
    /\ completion_tokens >= 1 /\ prompt_tokens >= 1 /\ completion_tokens # prompt_tokens

\* C4: in the GLM4 and GLM3 branches a response with the start marker and without the
\* terminating marker, and a response without the start marker, give the empty list.
C4_MissingMarker ==
    (/\ pc = "done" /\ op = "glm" /\ model \in {"GLM4", "GLM3"}
     /\ response # None /\ outcome = "returned"
     /\ ~contains(response, START) \/ ~contains(response, END))
        => result = <<>>

\* the retry attempts of a finished call on a supported path
SupportedDone ==
    /\ pc = "done" /\ outcome = "returned"
    /\ \/ op = "gpt" /\ n_req >= 1
       \/ op = "glm" /\ model \in GLM_MODELS
EveryAttemptFailed == IF op = "gpt" THEN succeededAt = 0 ELSE response = None
SomeResponseObtained == IF op = "gpt" THEN obtained >= 1 ELSE response # None

\* a ChatGLM2 body with no data line of non-empty payload after a finish line
NoPayloadAfterFinish(body) ==
    LET lines == split(body, <<NL>>)
    IN  ~ \E i, j \in 1..Len(lines) :
            /\ i < j
            /\ startswith(lines[i], <<FIN>>)
            /\ startswith(lines[j], <<DATA>>)
            /\ Len(lines[j]) > Len(<<DATA>>)

DecodeFailed ==
    /\ op = "glm" /\ response # None
    /\ IF model = "ChatGLM2" THEN NoPayloadAfterFinish(response)
       ELSE ~contains(response, START)

textLines == split(text, <<NL>>)

\* C5 as stated: a text with no line equal to 'event: finish' gives the empty list.
C5_NoFinishLineEqual ==
    (xpc = "out" /\ \A i \in 1..Len(textLines) : textLines[i] # <<FIN>>)
        => extracted = <<>>

\* C5 amended: a text with no line that starts with 'event: finish' gives the empty
\* list, however many data lines it has.
C5_NoFinishLinePrefix ==
    (xpc = "out" /\ \A i \in 1..Len(textLines) : ~startswith(textLines[i], <<FIN>>))
        => extracted = <<>>

C5_Witness ==
    /\ xpc = "out" /\ text = <<DATA, X, NL, DATA, X, X>> /\ extracted = <<>>

\* the lines extract_data is to take: the data lines of non-empty payload below a finish line
Taken(j) ==
    /\ startswith(textLines[j], <<DATA>>)
    /\ Len(textLines[j]) > Len(<<DATA>>)
    /\ \E i \in 1..(j - 1) : startswith(textLines[i], <<FIN>>)
Payload(line) == SubSeq(line, Len(<<DATA>>) + 1, Len(line))
ExpectedData ==
    LET taken == SelectSeq([j \in 1..Len(textLines) |-> j], Taken)
    IN  [k \in 1..Len(taken) |-> Payload(textLines[taken[k]])]

\* C6: extract_data returns, in input order, exactly the payloads of the data lines that come
\* after the finish line and have a non-empty payload; the example gives ['x', 'xx'].
C6_PayloadsAfterFinish ==
    xpc = "out" =>
        /\ extracted = ExpectedData
        /\ text = ExampleText => extracted = <<<<X>>, <<X, X>>>>

C6_Witness ==
    /\ xpc = "out" /\ text = ExampleText /\ extracted = <<<<X>>, <<X, X>>>>

C8_NoFaultReachesCaller ==
    (pc = "done" /\ op \in {"gpt", "glm", "local"}) => outcome = "returned"

\* the parsing loop has gone through row i
Parsed(i) == rpc \in {"parse", "write", "done"} /\ i <= idx
\* the run got as far as the parsing loop and is over
RanPastGenerate == rpc = "done" /\ failed \notin {"read", "prompts", "generate"}

C10_OutputKeyCollision ==
    output_key \in input_columns =>
        /\ ~written
        /\ rpc # "write"
        /\ rpc = "done" => failed # "none"

C10_Witness ==
    /\ output_key \in input_columns /\ rpc = "done" /\ failed = "output_key"
    /\ idx = 2 /\ ~written

RECURSIVE Sum(_)
Sum(q) == IF q = <<>> THEN 0 ELSE Head(q) + Sum(Tail(q))

RECURSIVE Flatten(_)
Flatten(q) == IF q = <<>> THEN <<>> ELSE Head(q) \o Flatten(Tail(q))

InChatgpt == op \in {"gpt", "chatgpt"} /\ pc \in {"chat_loop", "chat_call", "chat_got"}

\* C11: chatgpt asked for n >= 1 samples makes ceil(n / 20) provider calls, each for 1..20
\* samples, the counts summing to n; it returns the calls' outputs concatenated in call
\* order; each call's usage is in the counters once the call is recorded; and the samples
\* still to request never go below 0 and shrink with every call, so the loop ends.
C11_ChatgptBatches ==
    /\ InChatgpt =>
          /\ n >= 0
          /\ n + Sum(provider_calls) = n_req
          /\ \A i \in 1..Len(provider_calls) : provider_calls[i] \in 1..20
          /\ Len(provider_calls) <= (n_req + 19) \div 20
    /\ (InChatgpt /\ pc = "chat_loop") =>
          /\ outputs = Flatten(choices_log)
          /\ completion_tokens = reported_completion
          /\ prompt_tokens = reported_prompt
    /\ (op = "chatgpt" /\ pc = "done" /\ outcome = "returned" /\ n_req >= 1) =>
          /\ Len(provider_calls) = (n_req + 19) \div 20
          /\ Sum(provider_calls) = n_req
          /\ result = Flatten(choices_log)

C11_Witness ==
    /\ op = "chatgpt" /\ pc = "done" /\ outcome = "returned" /\ n_req = 21
    /\ provider_calls = <<20, 1>>
    /\ Len(result) = 21 /\ result[1] # result[2] /\ result[21] # result[20]
    /\ completion_tokens = 2

\* a constructor call with an unsupported generator_type fails, and only supported kinds
\* give an instance
ConstructorRejects ==
    /\ (op = "construct" /\ pc = "done"
        /\ generator_type \notin {"<absent>", "local", "aisuite", "request", "LOCAL"})
          => outcome = "raised"
    /\ (op = "construct" /\ pc = "done" /\ outcome = "returned")
          => result \in {<<"local">>, <<"aisuite">>, <<"request">>}
UnsupportedModelCall == op = "glm" /\ pc = "done" /\ model \notin {"ChatGLM2", "GLM4", "GLM3"}

C13_AnyFaultRetried ==
    [][pc = "chat_call" => pc' \in {"chat_call", "chat_got"}]_vars

\* C14: gpt_usage(backend) returns the current completion_tokens and prompt_tokens, leaves
\* both counters as they were, and for a backend other than 'gpt-4' and 'gpt-3.5-turbo'
\* returns the cost -1, never 0, whatever the counters are.
C14_UsageReport ==
    /\ [](op = "gpt_usage" /\ pc = "done" =>
            /\ outcome = "returned"
            /\ result.completion_tokens = completion_tokens
            /\ result.prompt_tokens = prompt_tokens
            /\ backend \notin {"gpt-4", "gpt-3.5-turbo"} =>
                  (result.cost = -10000000 /\ result.cost # 0)
            /\ backend = "gpt-4" =>
                  result.cost = completion_tokens * 600 + prompt_tokens * 300)
    /\ [][(pc = "idle" /\ op' = "gpt_usage") =>
            /\ counters' = counters
            /\ result'.completion_tokens = completion_tokens
            /\ result'.prompt_tokens = prompt_tokens]_vars

C14_Witness ==
    /\ op = "gpt_usage" /\ pc = "done" /\ backend = "glm"
    /\ completion_tokens > 0 /\ prompt_tokens > 0
    /\ result.cost = -10000000

\* the labels a JSON object gives a row
ObjectLabels(str) ==
    IF str = JSON_BOTH
    THEN [primary_category |-> "math", secondary_category |-> "arithmetic"]
    ELSE IF str = JSON_PRIMARY
    THEN [primary_category |-> "physics", secondary_category |-> ""]
    ELSE [primary_category |-> "", secondary_category |-> ""]

\* C15: in run, every row whose response is a JSON object gets that object's values as its
\* primary_category and secondary_category ("" for a key the object lacks), row i from
\* response i; a row the loop has not reached yet is as it was read.
C15_RowLabelledFromOwnResponse ==
    /\ \A i \in 1..MaxRows :
          (Parsed(i) /\ responses[i] \in {JSON_BOTH, JSON_PRIMARY, JSON_EMPTY}) =>
              labels[i] = ObjectLabels(responses[i])
    /\ \A i \in 1..MaxRows :
          ((rpc \in {"parse", "write"} \/ RanPastGenerate) /\ idx < i /\ i <= nrows) =>
              labels[i] = labels0[i]

C15_Witness ==
    /\ rpc = "done" /\ written /\ idx = 2
    /\ responses = <<JSON_PRIMARY, JSON_BOTH>>
    /\ labels[1] = [primary_category |-> "physics", secondary_category |-> ""]
    /\ labels[2] = [primary_category |-> "math", secondary_category |-> "arithmetic"]

\* C16: for a reply holding both markers, the terminating one after the start one, the
\* decoded list is the text between the first start marker and the first terminating
\* marker, split on newlines, also when the start marker occurs more than once.
C16_BetweenFirstMarkers ==
    (/\ dpc = "out"
     /\ find(reply, START) > 0
     /\ find(reply, END) >= find(reply, START) + Len(START)) =>
        decoded = split(SubSeq(reply, find(reply, START) + Len(START),
                               find(reply, END) - 1), <<NL>>)

\* C17: in run, when input_key is not a column of the input, the exception is raised
\* before generate_text_from_input is called: no generation call is made, no row is
\* labelled and the output file is not written.
C17_MissingInputKey ==
    input_key \notin input_columns =>
        /\ generate_calls = 0
        /\ rpc \notin {"generate", "parse", "write"}
        /\ idx = 0
        /\ labels \in {<<>>, labels0}
        /\ ~written
        /\ rpc = "done" => failed \in {"read", "prompts"}

C17_Witness ==
    /\ input_key \notin input_columns /\ nrows = 2
    /\ rpc = "done" /\ failed = "prompts"
    /\ generate_calls = 0 /\ labels = labels0 /\ ~written

InGlmCall == op = "glm" /\ model \in GLM_MODELS /\ pc # "idle"

\* C18: a get_glm_reply call with a recognised model makes 1 to 3 POST attempts and none
\* after the first that returns a response; tol stays within 0..3 and goes down by exactly
\* 1 per failed attempt; every pass of the loop either lowers tol or leaves the loop, and
\* the loop is left when tol is 0, so it terminates.
C18_BoundedPosts ==
    /\ [](InGlmCall =>
            /\ tol \in 0..3
            /\ posts \in 0..3
            /\ response = None => (tol = 3 - posts /\ (pc = "glm_loop" \/ tol = 0))
            /\ response # None => (pc \in {"glm_decode", "done"} /\ tol = 3 - (posts - 1))
            /\ pc \in {"glm_decode", "done"} => posts >= 1)
    /\ [][(InGlmCall /\ posts' # posts /\ pc' # "idle") =>
            /\ pc = "glm_loop" /\ response = None /\ tol > 0
            /\ posts' = posts + 1
            /\ \/ response' = None /\ tol' = tol - 1 /\ pc' = "glm_loop"
               \/ response' # None /\ tol' = tol /\ pc' = "glm_decode"]_vars
    /\ [][(InGlmCall /\ pc = "glm_loop") =>
            (pc' = "glm_decode" \/ (pc' = "glm_loop" /\ tol' = tol - 1))]_vars
    /\ [][(InGlmCall /\ tol' # tol /\ pc' # "idle") => posts' = posts + 1]_vars

C18_Witness ==
    /\ op = "glm" /\ model = "GLM4" /\ pc = "done"
    /\ posts = 3 /\ tol = 1 /\ response # None /\ outcome = "returned" /\ result # <<>>

\* C19: gpt called with n > 1 returns the newline-split lines of the first sample alone:
\* all n samples were obtained and the usage of every provider call made for them is in
\* the counters, yet samples 2..n are not in the result; and when an attempt is abandoned
\* the usage already added for it stays in the counters.
C19_FirstSampleOnly ==
    /\ []((op = "gpt" /\ pc = "done" /\ succeededAt # 0 /\ n_req > 1) =>
            /\ Len(outputs) = n_req
            /\ Sum(provider_calls) = n_req
            /\ result = split(outputs[1], <<NL>>)
            /\ completion_tokens = reported_completion
            /\ prompt_tokens = reported_prompt)
    /\ []((op = "gpt" /\ pc = "gpt_loop") =>
            /\ completion_tokens = reported_completion
            /\ prompt_tokens = reported_prompt)
    /\ [][(op = "gpt" /\ cnt' = cnt - 1 /\ pc' = "gpt_loop") => counters' = counters]_vars

C19_Witness ==
    /\ op = "gpt" /\ pc = "done" /\ n_req = 2
    /\ attempts = 2 /\ succeededAt = 2
    /\ outputs = <<<<X, NL, X>>, <<X>>>>
    /\ result = <<<<X>>, <<X>>>>
    /\ completion_tokens = 2 /\ prompt_tokens = 2

\* C20: run never lets an exception out: a fault in reading, prompt building, generation,
\* the output_key check or writing ends the run normally with the fault reported; and the
\* output file is written only when reading, prompt building, generation, the parsing of
\* every row and the output_key check all completed.
C20_RunCatchesEverything ==
    /\ rpc \in {"read", "prompts", "generate", "parse", "write", "done"}
    /\ failed # "none" => (rpc = "done" /\ ~written)
    /\ written =>
          /\ rpc = "done" /\ failed = "none"
          /\ input_columns \subseteq columns
          /\ input_key \in input_columns
          /\ generate_calls = 1
          /\ idx = zipped
          /\ output_key \notin columns

C20_Witness ==
    /\ rpc = "done" /\ failed = "to_json" /\ ~written
    /\ idx = 2 /\ generate_calls = 1 /\ responses = <<JSON_BOTH, JSON_LIST>>

====
